---- MODULE Spec2Model ----
(***************************************************************************)
(* The live-rates synchronisation loop (pullLoop) and the CoinAPI          *)
(* streaming client (subscribePriceUpdate) it supervises.                  *)
(*                                                                         *)
(* Time is counted in units of TimeUnit milliseconds, the greatest common  *)
(* divisor of the four delays of the loop.  A timer set with setTimeout    *)
(* fires at its deadline; websocket events arrive at any instant.          *)
(***************************************************************************)
EXTENDS Integers, Sequences, FiniteSets, TLC

VARIABLES
    now,        \* the clock, in time units
    started,    \* the database is initialised and pullLoop() was first called
    conns,      \* the connections opened so far, in the order they were opened
    timers,     \* the pending setTimeout timers
    uncaught,   \* "none", or the exception that escaped a handler and ended the process
    ticks,      \* the unit clock steps taken so far
    COINAPI_KEY,\* process.env.COINAPI_KEY is defined
    checked,    \* the provider's init() has returned
    codec       \* the symbol or pair-exchange id under conversion, and the results

vars == <<now, started, conns, timers, uncaught, ticks, COINAPI_KEY, checked, codec>>

\* what the handlers of the loop and of the websocket leave alone
fixed == <<COINAPI_KEY, checked, codec>>

-----------------------------------------------------------------------------
(* Bounds of the model *)

\* connections opened over a run
MaxConn == 3
\* frames that deliver a price update or arrive after a cancel, over a run
MaxFrames == 2
\* unit steps of the clock over a run (every other step jumps to a timer deadline)
MaxTicks == 1
\* segments of a wire symbol under conversion
MaxSegments == 4

-----------------------------------------------------------------------------
(* The delays of the loop *)

TimeUnit == 10 * 1000

rebootTimeIfError == (60 * 1000) \div TimeUnit
rebootTimeIfComplete == (30 * 1000) \div TimeUnit
autoRebootHangTime == (10 * 1000) \div TimeUnit
autoRebootInterval == (4 * 60 * 60 * 1000) \div TimeUnit

-----------------------------------------------------------------------------
(* Wire symbols.  A string is the sequence of its pieces; "_" is the       *)
(* separator character, any other piece stands for a run of characters     *)
(* that holds no separator.                                                *)

Sep == "_"

\* the tickers the service supports (allTickers of ../utils)
allTickers == {"BTC", "USD", "ETH"}

supportTicker(segment) == Len(segment) = 1 /\ segment[1] \in allTickers

\* s.split("_"): the segments between the separators, empty ones included
RECURSIVE SplitFrom(_, _, _)
SplitFrom(s, i, cur) ==
    IF i > Len(s) THEN <<cur>>
    ELSE IF s[i] = Sep THEN <<cur>> \o SplitFrom(s, i + 1, <<>>)
    ELSE SplitFrom(s, i + 1, Append(cur, s[i]))

Split(s) == SplitFrom(s, 1, <<>>)

\* what a destructuring reads at position i of an array: the element, or undefined
Undefined == <<"undefined">>
At(parts, i) == IF i <= Len(parts) THEN parts[i] ELSE Undefined

None == [none |-> TRUE]

\* pairExchange(exchange, from, to) of ../utils
pairExchange(exchange, from, to) ==
    IF supportTicker(from) /\ supportTicker(to)
    THEN [none |-> FALSE, id |-> <<exchange, from, to>>,
          exchange |-> exchange, from |-> from, to |-> to]
    ELSE None

\* symbolToPairExchange without the test of the instrument type
symbolToPairExchange_anyType(symbol) ==
    LET parts == Split(symbol)
    IN  pairExchange(At(parts, 1), At(parts, 3), At(parts, 4))

\* symbolToPairExchange building the pair itself, whatever the assets
symbolToPairExchange_anyAsset(symbol) ==
    LET parts == Split(symbol)
    IN  IF At(parts, 2) # <<"SPOT">> THEN None
        ELSE [none |-> FALSE, id |-> <<At(parts, 1), At(parts, 3), At(parts, 4)>>,
              exchange |-> At(parts, 1), from |-> At(parts, 3), to |-> At(parts, 4)]

symbolToPairExchange(symbol) ==
    LET parts == Split(symbol)
        exchange == At(parts, 1)
        type == At(parts, 2)
        from == At(parts, 3)
        to == At(parts, 4)
    IN  IF type # <<"SPOT">> THEN None
        ELSE pairExchange(exchange, from, to)

\* the text of segments joined by the separator
RECURSIVE Join(_)
Join(segments) ==
    IF segments = <<>> THEN <<>>
    ELSE IF Len(segments) = 1 THEN segments[1]
    ELSE segments[1] \o <<Sep>> \o Join(Tail(segments))

HasSep(field) == \E i \in DOMAIN field : field[i] = Sep

\* pairExchangeFromId(id) of ../utils: the fields of the id, or an encoding error
\* when a field holds the separator
pairExchangeFromId(id) ==
    IF \E k \in 1..3 : HasSep(id[k])
    THEN [error |-> TRUE]
    ELSE [error |-> FALSE, exchange |-> id[1], from |-> id[2], to |-> id[3]]

\* pairExchangeIdToSymbol with the assets in the wrong order
pairExchangeIdToSymbol_swapped(pairExchangeId) ==
    LET pe == pairExchangeFromId(pairExchangeId)
    IN  IF pe.error THEN [error |-> TRUE, symbol |-> <<>>]
        ELSE [error |-> FALSE,
              symbol |-> pe.exchange \o <<Sep, "SPOT", Sep>> \o pe.to \o <<Sep>> \o pe.from]

\* pairExchangeIdToSymbol building the symbol from the raw fields of the id
pairExchangeIdToSymbol_unchecked(pairExchangeId) ==
    [error |-> FALSE,
     symbol |-> pairExchangeId[1] \o <<Sep, "SPOT", Sep>> \o pairExchangeId[2]
                    \o <<Sep>> \o pairExchangeId[3]]

\* pairExchangeIdToSymbol(pairExchangeId): an error of pairExchangeFromId propagates
pairExchangeIdToSymbol(pairExchangeId) ==
    LET pe == pairExchangeFromId(pairExchangeId)
    IN  IF pe.error THEN [error |-> TRUE, symbol |-> <<>>]
        ELSE [error |-> FALSE,
              symbol |-> pe.exchange \o <<Sep, "SPOT", Sep>> \o pe.from \o <<Sep>> \o pe.to]

\* init() that accepts a missing key
init_unchecked(key) == "ok"

\* init(): throws when COINAPI_KEY is not defined
init(key) == IF ~key THEN "throws" ELSE "ok"

-----------------------------------------------------------------------------
(* Inbound frames.  text = FALSE is data JSON.parse rejects; object =      *)
(* FALSE is JSON that is no object (a number, null); has_symbol_id = FALSE *)
(* is an object without the symbol_id field.                               *)

Frame(text, object, type, has, symbol, price, message) ==
    [text |-> text, object |-> object, type |-> type, has_symbol_id |-> has,
     symbol_id |-> symbol, price |-> price, message |-> message]

KrakenSpotBtcUsd == <<"KRAKEN", Sep, "SPOT", Sep, "BTC", Sep, "USD">>
KrakenMarginBtcUsd == <<"KRAKEN", Sep, "MARGIN", Sep, "BTC", Sep, "USD">>

NotJson == Frame(FALSE, FALSE, "", FALSE, <<>>, 0, "")
JsonNumber == Frame(TRUE, FALSE, "", FALSE, <<>>, 0, "")
ErrorFrame == Frame(TRUE, TRUE, "error", FALSE, <<>>, 0, "Invalid API key")
TradeSpot == Frame(TRUE, TRUE, "trade", TRUE, KrakenSpotBtcUsd, 50000, "")
TradeMargin == Frame(TRUE, TRUE, "trade", TRUE, KrakenMarginBtcUsd, 1, "")
Heartbeat == Frame(TRUE, TRUE, "heartbeat", FALSE, <<>>, 0, "")
QuoteSpot == Frame(TRUE, TRUE, "quote", TRUE, KrakenSpotBtcUsd, 49000, "")

Frames == {NotJson, JsonNumber, ErrorFrame, TradeSpot, TradeMargin, Heartbeat, QuoteSpot}

\* the frames the specification calls malformed or unrecognized
Unrecognized(f) == ~f.text \/ ~f.object \/ f.type \notin {"trade", "error"}

-----------------------------------------------------------------------------
(* The state the handlers work on, as one record.                          *)

World == [now |-> now, conns |-> conns, timers |-> timers, uncaught |-> uncaught]

\* a connection: the websocket, the subscriber of the observable, and what
\* it has delivered to the loop so far
NewConn(t, by) ==
    [ws |-> "CONNECTING",   \* readyState of the websocket
     isStopped |-> FALSE,   \* the subscriber has errored, completed or been unsubscribed
     openedAt |-> t,
     openedBy |-> by,       \* what called pullLoop: <<"start", 0>> or <<cause, connection>>
     hello |-> 0,           \* handshake messages sent
     sink |-> <<>>,         \* the price updates delivered
     fromUnrecognized |-> 0,\* those of them that came from an unrecognized frame
     errors |-> <<>>,       \* the reasons delivered to the error callback
     completes |-> 0,       \* calls of the complete callback
     endedAt |-> -1,        \* when the error or complete callback ran
     restarts |-> 0,        \* setTimeout(pullLoop, ...) calls made for this connection
     canceled |-> FALSE,    \* sub.unsubscribe() was called
     late |-> 0,            \* frames handled after sub.unsubscribe()
     rotatedAt |-> -1,      \* when the rotation timer of this connection ran
     rotatedLive |-> FALSE, \* the connection was still live when it ran
     failed |-> FALSE]      \* the transport failed

Live(w, c) == ~w.conns[c].isStopped

setTimeout(w, kind, cause, by, delay) ==
    [w EXCEPT !.timers = @ \cup {[kind |-> kind, cause |-> cause, by |-> by,
                                  at |-> w.now + delay]}]

\* setTimeout(pullLoop, delay), counted for the connection it restarts
scheduleRestart(w, cause, c, delay) ==
    LET w1 == setTimeout(w, "pullLoop", cause, c, delay)
    IN  [w1 EXCEPT !.conns[c].restarts = @ + 1]

\* ws.close()
ws_close(w, c) ==
    IF w.conns[c].ws \in {"CLOSED", "CLOSING"} THEN w
    ELSE [w EXCEPT !.conns[c].ws = "CLOSING"]

\* the teardown subscribePriceUpdate returns
unsubscribe(w, c) == ws_close(w, c)

\* onError waiting rebootTimeIfComplete instead of rebootTimeIfError
onError_completeDelay(w, c, error) ==
    LET w1 == [w EXCEPT !.conns[c].errors = Append(@, error),
                        !.conns[c].endedAt = w.now]
    IN  [setTimeout(w1, "pullLoop", "error", c, rebootTimeIfComplete)
            EXCEPT !.conns[c].restarts = @ + 1]

\* the error callback pullLoop gives pullLiveRates
onError(w, c, error) ==
    LET w1 == [w EXCEPT !.conns[c].errors = Append(@, error),
                        !.conns[c].endedAt = w.now]
    IN  scheduleRestart(w1, "error", c, rebootTimeIfError)

\* the complete callback pullLoop gives pullLiveRates
onComplete(w, c) ==
    LET w1 == [w EXCEPT !.conns[c].completes = @ + 1,
                        !.conns[c].endedAt = w.now]
    IN  scheduleRestart(w1, "complete", c, rebootTimeIfComplete)

\* o.next(value): delivered unless the subscriber is stopped
o_next(w, c, value, unrecognized) ==
    IF w.conns[c].isStopped THEN w
    ELSE [w EXCEPT !.conns[c].sink = Append(@, value),
                   !.conns[c].fromUnrecognized = @ + (IF unrecognized THEN 1 ELSE 0)]

\* o.error(reason): stops the subscriber, calls the error callback, tears down
o_error(w, c, reason) ==
    IF w.conns[c].isStopped THEN w
    ELSE unsubscribe(onError([w EXCEPT !.conns[c].isStopped = TRUE], c, reason), c)

\* o.complete(): stops the subscriber, calls the complete callback, tears down
o_complete(w, c) ==
    IF w.conns[c].isStopped THEN w
    ELSE unsubscribe(onComplete([w EXCEPT !.conns[c].isStopped = TRUE], c), c)

\* sub.unsubscribe() that closes the websocket and leaves the subscriber listening
sub_unsubscribe_listening(w, c) ==
    unsubscribe([w EXCEPT !.conns[c].canceled = TRUE], c)

\* sub.unsubscribe() that reports a completion to the loop each time it is called
sub_unsubscribe_reporting(w, c) ==
    LET w1 == [w EXCEPT !.conns[c].canceled = TRUE, !.conns[c].isStopped = TRUE]
    IN  onComplete(unsubscribe(w1, c), c)

\* sub.unsubscribe(): stops the subscriber and tears down, once
sub_unsubscribe(w, c) ==
    LET w1 == [w EXCEPT !.conns[c].canceled = TRUE]
    IN  IF w1.conns[c].isStopped THEN w1
        ELSE unsubscribe([w1 EXCEPT !.conns[c].isStopped = TRUE], c)

\* subscribePriceUpdate(): a websocket is created, connecting
subscribePriceUpdate(w, by) ==
    [w EXCEPT !.conns = Append(@, NewConn(w.now, by))]

\* pullLiveRates(onError, onComplete) of ./cache: subscribes, returns the subscription
pullLiveRates(w, by) == subscribePriceUpdate(w, by)

\* pullLoop(): opens a connection and sets its rotation timer
pullLoop(w, by) ==
    LET w1 == pullLiveRates(w, by)
        sub == Len(w1.conns)
    IN  setTimeout(w1, "rotate", "interval", sub, autoRebootInterval)

\* the rotation callback restarting after rebootTimeIfComplete
rotation_completeDelay(w, sub) ==
    LET live == ~w.conns[sub].isStopped
        w1 == [w EXCEPT !.conns[sub].canceled = TRUE,
                        !.conns[sub].isStopped = TRUE,
                        !.conns[sub].ws = IF live /\ @ \in {"CONNECTING", "OPEN"}
                                          THEN "CLOSING" ELSE @,
                        !.conns[sub].rotatedAt = w.now,
                        !.conns[sub].rotatedLive = live,
                        !.conns[sub].restarts = @ + 1]
    IN  setTimeout(w1, "pullLoop", "rotate", sub, rebootTimeIfComplete)

\* the rotation timer's callback
rotation(w, sub) ==
    LET live == Live(w, sub)
        w1 == sub_unsubscribe(w, sub)
        w2 == [w1 EXCEPT !.conns[sub].rotatedAt = w.now,
                         !.conns[sub].rotatedLive = live]
    IN  scheduleRestart(w2, "rotate", sub, autoRebootHangTime)

\* the "open" handler: the handshake
onOpen(w, c) == [w EXCEPT !.conns[c].hello = @ + 1]

\* the "message" handler delivering each price update twice
onMessage_twice(w, c, data) ==
    IF ~data.text THEN [w EXCEPT !.uncaught = "SyntaxError"]
    ELSE IF ~data.object THEN w
    ELSE IF data.type = "error" THEN ws_close(o_error(w, c, data.message), c)
    ELSE IF ~data.has_symbol_id THEN [w EXCEPT !.uncaught = "TypeError"]
    ELSE LET maybePairExchange == symbolToPairExchange(data.symbol_id)
             value == [pairExchangeId |-> maybePairExchange.id, price |-> data.price]
         IN  IF maybePairExchange.none THEN w
             ELSE o_next(o_next(w, c, value, Unrecognized(data)), c, value,
                         Unrecognized(data))

\* the "message" handler
onMessage(w, c, data) ==
    IF ~data.text THEN [w EXCEPT !.uncaught = "SyntaxError"]
    ELSE IF ~data.object THEN w
    ELSE IF data.type = "error" THEN ws_close(o_error(w, c, data.message), c)
    ELSE IF ~data.has_symbol_id THEN [w EXCEPT !.uncaught = "TypeError"]
    ELSE LET maybePairExchange == symbolToPairExchange(data.symbol_id)
         IN  IF maybePairExchange.none THEN w
             ELSE o_next(w, c, [pairExchangeId |-> maybePairExchange.id,
                                price |-> data.price],
                         Unrecognized(data))

\* the "close" handler
onClose(w, c) == o_complete(w, c)

\* a frame arrived: counted as late after a cancel
arrived(w, c) ==
    [w EXCEPT !.conns[c].late = @ + (IF w.conns[c].canceled THEN 1 ELSE 0)]

-----------------------------------------------------------------------------
(* The actions *)

\* the handler returns; an exception nothing catches ends the process, and its
\* connections and timers with it
Apply(w) ==
    /\ conns' = IF w.uncaught = "none" THEN w.conns ELSE <<>>
    /\ timers' = IF w.uncaught = "none" THEN w.timers ELSE {}
    /\ uncaught' = w.uncaught

RECURSIVE Counted(_)
Counted(cs) ==
    IF cs = <<>> THEN 0
    ELSE Len(Head(cs).sink) + Head(cs).late + Counted(Tail(cs))

Running == uncaught = "none"

Idle == [pc |-> "idle", segments |-> <<>>, symbol |-> <<>>, id |-> <<>>, price |-> 0,
         decoded |-> None, encoded |-> [error |-> FALSE, symbol |-> <<>>]]

Init ==
    /\ now = 0
    /\ started = FALSE
    /\ conns = <<>>
    /\ timers = {}
    /\ uncaught = "none"
    /\ ticks = 0
    /\ COINAPI_KEY \in BOOLEAN
    /\ checked = FALSE
    /\ codec = Idle

\* process start: the provider's init() is called, once
Boot ==
    /\ Running /\ ~checked
    /\ IF init(COINAPI_KEY) = "throws"
       THEN uncaught' = "ConfigurationError" /\ UNCHANGED checked
       ELSE checked' = TRUE /\ UNCHANGED uncaught
    /\ UNCHANGED <<now, started, conns, timers, ticks, COINAPI_KEY, codec>>

\* the database is initialised: pullLoop()
Start ==
    /\ Running /\ checked /\ ~started
    /\ started' = TRUE
    /\ Apply(pullLoop(World, <<"start", 0>>))
    /\ UNCHANGED <<fixed, now, ticks>>

\* a setTimeout(pullLoop, ...) timer expires
RestartTimer ==
    \E t \in timers :
        /\ Running /\ t.kind = "pullLoop" /\ t.at = now
        /\ Len(conns) < MaxConn
        /\ Apply(pullLoop([World EXCEPT !.timers = @ \ {t}], <<t.cause, t.by>>))
        /\ UNCHANGED <<fixed, now, started, ticks>>

\* the rotation timer of a connection expires
RotationTimer ==
    \E t \in timers :
        /\ Running /\ t.kind = "rotate" /\ t.at = now
        /\ Apply(rotation([World EXCEPT !.timers = @ \ {t}], t.by))
        /\ UNCHANGED <<fixed, now, started, ticks>>

\* the websocket is connected
WsOpen ==
    \E c \in DOMAIN conns :
        /\ Running /\ conns[c].ws = "CONNECTING"
        /\ Apply(onOpen([World EXCEPT !.conns[c].ws = "OPEN"], c))
        /\ UNCHANGED <<fixed, now, started, ticks>>

\* a frame arrives; frames still arrive while the closing handshake runs
WsMessage ==
    \E c \in DOMAIN conns, data \in Frames :
        /\ Running /\ conns[c].ws \in {"OPEN", "CLOSING"}
        /\ conns[c].hello > 0
        /\ Counted(conns) < MaxFrames
        /\ Apply(onMessage(arrived(World, c), c, data))
        /\ UNCHANGED <<fixed, now, started, ticks>>

\* the remote end closes the connection gracefully
WsRemoteClose ==
    \E c \in DOMAIN conns :
        /\ Running /\ conns[c].ws = "OPEN"
        /\ Apply(onClose([World EXCEPT !.conns[c].ws = "CLOSED"], c))
        /\ UNCHANGED <<fixed, now, started, ticks>>

\* the closing handshake that ws.close() began is over
WsClosed ==
    \E c \in DOMAIN conns :
        /\ Running /\ conns[c].ws = "CLOSING"
        /\ Apply(onClose([World EXCEPT !.conns[c].ws = "CLOSED"], c))
        /\ UNCHANGED <<fixed, now, started, ticks>>

\* the established transport is lost and the websocket only emits "close"
\* (abnormal closure, no close frame)
WsTransportDrop ==
    \E c \in DOMAIN conns :
        /\ Running /\ conns[c].ws = "OPEN"
        /\ Apply(onClose([World EXCEPT !.conns[c].ws = "CLOSED",
                                       !.conns[c].failed = TRUE], c))
        /\ UNCHANGED <<fixed, now, started, ticks>>

\* the transport fails and the websocket emits "error", which has no listener
WsTransportError ==
    \E c \in DOMAIN conns :
        /\ Running /\ conns[c].ws \in {"CONNECTING", "OPEN"}
        /\ Apply([World EXCEPT !.conns[c].failed = TRUE,
                               !.uncaught = "UnhandledErrorEvent"])
        /\ UNCHANGED <<fixed, now, started, ticks>>

NoTimerDue == \A t \in timers : t.at > now

NextDeadline == CHOOSE d \in {t.at : t \in timers} : \A t \in timers : d <= t.at

\* the clock moves on by one unit, never past a deadline
Tick ==
    /\ Running /\ started /\ NoTimerDue
    /\ ticks < MaxTicks
    /\ now' = now + 1
    /\ ticks' = ticks + 1
    /\ UNCHANGED <<fixed, started, conns, timers, uncaught>>

\* the clock moves on to the next deadline
Advance ==
    /\ Running /\ timers # {} /\ NoTimerDue
    /\ now' = NextDeadline
    /\ UNCHANGED <<fixed, started, conns, timers, uncaught, ticks>>

Next ==
    \/ Boot
    \/ Start
    \/ RestartTimer
    \/ RotationTimer
    \/ WsOpen
    \/ WsMessage
    \/ WsRemoteClose
    \/ WsClosed
    \/ WsTransportDrop
    \/ WsTransportError
    \/ Tick
    \/ Advance

Spec == Init /\ [][Next]_vars

-----------------------------------------------------------------------------
(* The conversions between wire symbols and pair-exchange ids, applied to   *)
(* every input of a bounded set, on a connection that is streaming.         *)

SegmentChoices ==
    {<<>>, <<"KRAKEN">>, <<"SPOT">>, <<"MARGIN">>, <<"BTC">>, <<"USD">>, <<"XYZ">>}

SegmentSeqs == UNION {[1..n -> SegmentChoices] : n \in 1..MaxSegments}

IdFields == {<<"KRAKEN">>, <<"BTC">>, <<"USD">>, <<"XYZ">>, <<"BTC", Sep, "USD">>}

Ids == IdFields \X IdFields \X IdFields

Prices == {1, 50000}

\* the loop after pullLoop() and the "open" event of its websocket
Streaming ==
    LET w == pullLoop([now |-> 0, conns |-> <<>>, timers |-> {}, uncaught |-> "none"],
                      <<"start", 0>>)
    IN  onOpen([w EXCEPT !.conns[1].ws = "OPEN"], 1)

CodecInit ==
    /\ now = 0
    /\ started = TRUE
    /\ conns = Streaming.conns
    /\ timers = Streaming.timers
    /\ uncaught = "none"
    /\ ticks = 0
    /\ COINAPI_KEY = TRUE
    /\ checked = TRUE
    /\ codec \in
          {[Idle EXCEPT !.pc = "symbol", !.segments = g, !.symbol = Join(g), !.price = p] :
              g \in SegmentSeqs, p \in Prices}
          \cup {[Idle EXCEPT !.pc = "id", !.id = i] : i \in Ids}

\* symbolToPairExchange(symbol)
Decode ==
    /\ codec.pc = "symbol"
    /\ codec' = [codec EXCEPT !.pc = "decoded",
                              !.decoded = symbolToPairExchange(codec.symbol)]
    /\ UNCHANGED <<now, started, conns, timers, uncaught, ticks, COINAPI_KEY, checked>>

\* a trade frame with the symbol arrives on the connection
Deliver ==
    /\ codec.pc = "decoded"
    /\ codec' = [codec EXCEPT !.pc = "delivered"]
    /\ Apply(onMessage(arrived(World, 1), 1,
                       Frame(TRUE, TRUE, "trade", TRUE, codec.symbol, codec.price, "")))
    /\ UNCHANGED <<now, started, ticks, COINAPI_KEY, checked>>

\* pairExchangeIdToSymbol(id)
Encode ==
    /\ codec.pc = "id"
    /\ codec' = [codec EXCEPT !.pc = "encoded",
                              !.encoded = pairExchangeIdToSymbol(codec.id)]
    /\ UNCHANGED <<now, started, conns, timers, uncaught, ticks, COINAPI_KEY, checked>>

\* symbolToPairExchange(pairExchangeIdToSymbol(id))
DecodeEncoded ==
    /\ codec.pc = "encoded" /\ ~codec.encoded.error
    /\ codec' = [codec EXCEPT !.pc = "roundtrip",
                              !.decoded = symbolToPairExchange(codec.encoded.symbol)]
    /\ UNCHANGED <<now, started, conns, timers, uncaught, ticks, COINAPI_KEY, checked>>

CodecNext ==
    \/ Decode
    \/ Deliver
    \/ Encode
    \/ DecodeEncoded

CodecSpec == CodecInit /\ [][CodecNext]_vars

-----------------------------------------------------------------------------
(* The properties *)

LiveConns == {c \in DOMAIN conns : ~conns[c].isStopped}

\* the restart of connection c for a cause is pending for, or happened at, instant t
RestartAt(c, cause, t) ==
    \/ \E x \in timers : x.kind = "pullLoop" /\ x.cause = cause /\ x.by = c /\ x.at = t
    \/ \E d \in DOMAIN conns : conns[d].openedBy = <<cause, c>> /\ conns[d].openedAt = t

\* a connection opened strictly between the instants t and u
OpenedBetween(t, u) ==
    \E d \in DOMAIN conns : t < conns[d].openedAt /\ conns[d].openedAt < u

Signals(conn) == <<conn.sink, conn.errors, conn.completes>>

\* C1: in every reachable state at most one connection of the loop is live.
C1_AtMostOneLive == Cardinality(LiveConns) <= 1

\* C2: a connection that reached its terminal outcome (error, completion or rotation
\* cancel) has had exactly one restart scheduled for it, and no connection has
\* more than one.
C2_ExactlyOneRestart ==
    \A c \in DOMAIN conns :
        /\ conns[c].restarts <= 1
        /\ conns[c].isStopped => conns[c].restarts = 1

\* C3: a connection is not live past openedAt + autoRebootInterval; one that was still
\* live when its rotation timer ran was canceled at openedAt + autoRebootInterval,
\* the connection that rotation restarts opens at that instant + autoRebootHangTime,
\* and exactly one restart is scheduled for it, also once the websocket's close
\* event has arrived.
C3_Rotation ==
    \A c \in DOMAIN conns :
        /\ ~conns[c].isStopped => now <= conns[c].openedAt + autoRebootInterval
        /\ conns[c].rotatedLive =>
            /\ conns[c].rotatedAt = conns[c].openedAt + autoRebootInterval
            /\ conns[c].canceled /\ conns[c].isStopped
            /\ conns[c].ws \in {"CLOSING", "CLOSED"}
            /\ conns[c].restarts = 1
            /\ conns[c].completes = 0 /\ conns[c].errors = <<>>
            /\ RestartAt(c, "rotate", conns[c].rotatedAt + autoRebootHangTime)

\* a connection was rotated while live, its websocket's close event has arrived since,
\* and the restart opened the next connection
C3_Witness ==
    \E c \in DOMAIN conns :
        /\ conns[c].rotatedLive /\ conns[c].ws = "CLOSED"
        /\ \E d \in DOMAIN conns : conns[d].openedBy = <<"rotate", c>>

\* C4: after the error callback ran at t, the restart is pending for, or happened at,
\* t + rebootTimeIfError, and no connection was opened after t and before it.
C4_ErrorBackoff ==
    \A c \in DOMAIN conns :
        conns[c].errors # <<>> =>
            /\ RestartAt(c, "error", conns[c].endedAt + rebootTimeIfError)
            /\ ~OpenedBetween(conns[c].endedAt, conns[c].endedAt + rebootTimeIfError)

\* C5: after the complete callback ran at t for a connection the remote end closed,
\* the restart is pending for, or happened at, t + rebootTimeIfComplete, and no
\* connection was opened after t and before it.
C5_CompleteBackoff ==
    \A c \in DOMAIN conns :
        (conns[c].completes > 0 /\ ~conns[c].failed) =>
            /\ RestartAt(c, "complete", conns[c].endedAt + rebootTimeIfComplete)
            /\ ~OpenedBetween(conns[c].endedAt, conns[c].endedAt + rebootTimeIfComplete)

\* C6: once sub.unsubscribe() was called on a connection, no step delivers a price
\* update, an error or a completion for it (a step that ends the process delivers
\* nothing at all).
C6_NoSignalAfterCancel ==
    [][\A c \in DOMAIN conns :
          (conns[c].canceled /\ uncaught' = "none") =>
              Signals(conns'[c]) = Signals(conns[c])]_vars

\* a frame and then the close event arrived on a connection canceled while live
C6_Witness ==
    \E c \in DOMAIN conns :
        conns[c].canceled /\ conns[c].rotatedLive /\ conns[c].late >= 1
            /\ conns[c].ws = "CLOSED"

\* C7: sub.unsubscribe() called a second time on a connection leaves everything as
\* the first call left it: no signal, no timer, no restart is added.
C7_CancelIdempotent ==
    \A c \in DOMAIN conns :
        sub_unsubscribe(sub_unsubscribe(World, c), c) = sub_unsubscribe(World, c)

\* the rotation timer canceled a connection that had already terminated
C7_Witness ==
    \E c \in DOMAIN conns :
        /\ conns[c].canceled /\ conns[c].rotatedAt >= 0 /\ ~conns[c].rotatedLive
        /\ conns[c].errors # <<>> \/ conns[c].completes > 0

\* C8: a connection whose transport failed never gets the complete callback, and no
\* restart is scheduled for it with the delay of a completion.
C8_FailureIsError ==
    \A c \in DOMAIN conns :
        conns[c].failed =>
            /\ conns[c].completes = 0
            /\ ~\E t \in timers : t.kind = "pullLoop" /\ t.by = c /\ t.cause = "complete"

\* C9: the message handler, given an error frame on a live connection, calls the
\* error callback once with the frame's message, closes the websocket and schedules
\* the restart rebootTimeIfError later; and every connection that got the error
\* callback is restarted rebootTimeIfError after it.
C9_ErrorFrame ==
    \A c \in DOMAIN conns :
        /\ \A data \in Frames :
            (data.text /\ data.object /\ data.type = "error" /\ Running
                /\ ~conns[c].isStopped /\ conns[c].ws = "OPEN") =>
                LET w == onMessage(World, c, data)
                IN  /\ w.conns[c].errors = <<data.message>>
                    /\ w.conns[c].completes = 0
                    /\ w.conns[c].isStopped
                    /\ w.conns[c].ws = "CLOSING"
                    /\ w.conns[c].sink = conns[c].sink
                    /\ w.timers \ timers =
                           {[kind |-> "pullLoop", cause |-> "error", by |-> c,
                             at |-> now + rebootTimeIfError]}
                    /\ w.uncaught = "none"
        /\ conns[c].errors # <<>> =>
            /\ Len(conns[c].errors) = 1
            /\ conns[c].ws \in {"CLOSING", "CLOSED"}
            /\ RestartAt(c, "error", conns[c].endedAt + rebootTimeIfError)

\* an error frame ended a connection and the restart opened the next one
C9_Witness ==
    \E c \in DOMAIN conns :
        /\ conns[c].errors = <<ErrorFrame.message>>
        /\ \E d \in DOMAIN conns :
              /\ conns[d].openedBy = <<"error", c>>
              /\ conns[d].openedAt = conns[c].endedAt + rebootTimeIfError

\* C10: a frame that does not parse, or whose type is neither "trade" nor "error",
\* delivers no price update and lets no exception out of the message handler.
C10_UnrecognizedDropped ==
    /\ uncaught \notin {"SyntaxError", "TypeError"}
    /\ \A c \in DOMAIN conns : conns[c].fromUnrecognized = 0

\* the terminal outcomes a connection has had: error callbacks, complete callbacks,
\* and a cancel that found it live
Outcomes(conn) ==
    Len(conn.errors) + conn.completes + (IF conn.rotatedLive THEN 1 ELSE 0)

\* C11: every connection reaches a terminal outcome, exactly once: a connection has
\* had one outcome if it is stopped and none if it is live, and no step leaves a
\* live connection behind without an outcome.
C11_TerminalOnce ==
    [][\A c \in DOMAIN conns :
          /\ Outcomes(conns[c]) = (IF conns[c].isStopped THEN 1 ELSE 0)
          /\ ~conns[c].isStopped => uncaught' = "none"]_vars

\* C12: once started the loop never ends: the process is running, a timer of the
\* loop is pending in every state, and a connection that ended in the error
\* callback is restarted rebootTimeIfError later.
C12_NeverTerminates ==
    started =>
        /\ uncaught = "none"
        /\ timers # {}
        /\ \A c \in DOMAIN conns :
              conns[c].errors # <<>> =>
                  RestartAt(c, "error", conns[c].endedAt + rebootTimeIfError)

C19_RotationOnLive ==
    /\ Cardinality({t \in timers : t.kind = "rotate"}) <= 1
    /\ \A c \in DOMAIN conns : conns[c].rotatedAt >= 0 => conns[c].rotatedLive

\* when a connection terminated: its rotation cancel, or its error or complete callback
TerminatedAt(conn) == IF conn.rotatedLive THEN conn.rotatedAt ELSE conn.endedAt

\* C20: once started, a restart is pending whenever no connection is live, and the
\* restart of a terminated connection is due at most rebootTimeIfError after its
\* termination.
C20_BoundedRecovery ==
    started =>
        /\ LiveConns = {} => \E t \in timers : t.kind = "pullLoop"
        /\ \A c \in DOMAIN conns :
              conns[c].isStopped =>
                  \E cause \in {"error", "complete", "rotate"}, d \in 0..rebootTimeIfError :
                      RestartAt(c, cause, TerminatedAt(conns[c]) + d)

-----------------------------------------------------------------------------
(* The properties of the conversions *)

\* the symbol has been through symbolToPairExchange
Decoded == codec.pc \in {"decoded", "delivered"}

\* C13: a trade frame on a live connection delivers a price update exactly when
\* symbolToPairExchange of its symbol is a pair; the update is delivered once and
\* holds the id of that pair and the price of the frame.
C13_TickEmitsIffDecoded ==
    codec.pc = "delivered" =>
        conns[1].sink = IF codec.decoded.none THEN <<>>
                        ELSE <<[pairExchangeId |-> codec.decoded.id,
                                price |-> codec.price]>>

\* a trade frame of a supported spot pair was delivered, and so was one of a symbol
\* that is no pair
C13_Witness ==
    /\ codec.pc = "delivered" /\ ~codec.decoded.none
    /\ conns[1].sink = <<[pairExchangeId |-> <<<<"KRAKEN">>, <<"BTC">>, <<"USD">>>>,
                          price |-> 50000]>>

\* C14: a symbol whose second segment is not "SPOT" decodes to no pair, and a trade
\* frame with it delivers nothing.
C14_NonSpotDropped ==
    (Decoded /\ At(codec.segments, 2) # <<"SPOT">>) =>
        codec.decoded.none /\ conns[1].sink = <<>>

\* a trade frame of a margin instrument with supported assets was handled
C14_Witness ==
    /\ codec.pc = "delivered"
    /\ codec.segments = <<<<"KRAKEN">>, <<"MARGIN">>, <<"BTC">>, <<"USD">>>>

ValidId(id) ==
    /\ \A k \in 1..3 : ~HasSep(id[k])
    /\ supportTicker(id[2]) /\ supportTicker(id[3])

\* C16: for a valid id, pairExchangeIdToSymbol gives a symbol, and
\* symbolToPairExchange of that symbol is the pair with the same id.
C16_RoundTrip ==
    (codec.pc \in {"encoded", "roundtrip"} /\ ValidId(codec.id)) =>
        /\ ~codec.encoded.error
        /\ codec.pc = "roundtrip" =>
              ~codec.decoded.none /\ codec.decoded.id = codec.id

\* a valid id went through both conversions
C16_Witness ==
    /\ codec.pc = "roundtrip"
    /\ codec.id = <<<<"KRAKEN">>, <<"BTC">>, <<"USD">>>>
    /\ codec.encoded.symbol = KrakenSpotBtcUsd

====
